---- MODULE Spec2Model ----
(***************************************************************************)
(* Model of the SCSI hard disk device of RaSCSI                            *)
(* (src/raspberrypi/devices/scsihd.cpp): the constructor, Reset, Open,     *)
(* Inquiry and ModeSelect of class SCSIHD.                                 *)
(*                                                                         *)
(* Number representation.  TLC integers are 32 bits wide, the program's    *)
(* file size is an off64_t of up to a little more than 2^41 and the block  *)
(* count is a DWORD of up to 2^32 - 1.  Both are therefore kept as limbs:  *)
(*   a file size  is [mib, sec, byt] = mib * 2^20 + sec * 2^9 + byt        *)
(*                   with sec \in 0..2047 and byt \in 0..511;              *)
(*   a block count is [hi, lo]       = hi * 2^11 + lo                      *)
(*                   with lo \in 0..2047; a DWORD has hi \in 0..2^21 - 1.  *)
(* Characters are their ASCII codes, strings are sequences of codes.       *)
(***************************************************************************)
EXTENDS Integers, Sequences, FiniteSets, TLC

VARIABLES
    ready,      \* Device::IsReady()
    locked,     \* Device::IsLocked()
    attn,       \* Device::IsAttn()
    reset,      \* Device::IsReset()
    protect,    \* Device::IsProtected()
    status,     \* Device status code (SetStatusCode)
    size,       \* disk.size : sector size exponent
    blocks,     \* disk.blocks : DWORD, as limbs [hi, lo]
    product,    \* Device product name, a sequence of character codes
    lun,        \* Device::GetLun()
    call        \* the last handler invocation: its arguments and its results

vars == <<ready, locked, attn, reset, protect, status, size, blocks, product, lun, call>>

devvars == <<ready, locked, attn, reset, protect, status, size, blocks, product, lun>>

----------------------------------------------------------------------------
(* Status codes *)

STATUS_NOERROR    == "NOERROR"
STATUS_INVALIDCDB == "INVALIDCDB"
STATUS_INVALIDPRM == "INVALIDPRM"
STATUS_NOTREADY   == "NOTREADY"

----------------------------------------------------------------------------
(* Limb arithmetic *)

TwoPow21 == 2097152      \* 2^21 : number of MiB in 2 TiB, and 2^32 / 2^11
SecPerMib == 2048        \* 2^11 : 512-byte sectors per MiB

\* size & 0x1ff
Low9Bits(fsize) == fsize.byt

\* size > 2LL * 1024 * 1024 * 1024 * 1024
Exceeds2TB(fsize) ==
    \/ fsize.mib > TwoPow21
    \/ fsize.mib = TwoPow21 /\ (fsize.sec > 0 \/ fsize.byt > 0)

\* size >> 9, a 64-bit quantity whose hi limb is not bounded by 2^21
ShiftRight9(fsize) == [hi |-> fsize.mib, lo |-> fsize.sec]

\* (DWORD)q : the low 32 bits of q
ToDWORD(q) == [hi |-> q.hi % TwoPow21, lo |-> q.lo]

\* disk.blocks >> 11, converted to int
ShiftRight11(b) == b.hi

ZeroBlocks == [hi |-> 0, lo |-> 0]

----------------------------------------------------------------------------
(* sprintf *)

RECURSIVE Dec(_)
\* "%d" of a non-negative int: the decimal digits, most significant first
Dec(n) == IF n < 10 THEN <<48 + n>> ELSE Dec(n \div 10) \o <<48 + (n % 10)>>

PRODRIVE_LPS == <<80, 82, 79, 68, 82, 73, 86, 69, 32, 76, 80, 83>>
MAVERICK     == <<77, 65, 86, 69, 82, 73, 67, 75>>
LIGHTNING    == <<76, 73, 71, 72, 84, 78, 73, 78, 71>>
TRAILBRAZER  == <<84, 82, 65, 73, 76, 66, 82, 65, 90, 69, 82>>
FIREBALL     == <<70, 73, 82, 69, 66, 65, 76, 76>>
FBSE         == <<70, 66, 83, 69>>
CharS        == <<83>>
CharDot      == <<46>>

\* the product name chosen with an off-by-one first threshold
ProductNameInclusive(capacity) ==
    IF capacity <= 300 THEN PRODRIVE_LPS \o Dec(capacity) \o CharS
    ELSE IF capacity < 600 THEN MAVERICK \o Dec(capacity) \o CharS
    ELSE IF capacity < 800 THEN LIGHTNING \o Dec(capacity) \o CharS
    ELSE IF capacity < 1000 THEN TRAILBRAZER \o Dec(capacity) \o CharS
    ELSE IF capacity < 2000 THEN FIREBALL \o Dec(capacity) \o CharS
    ELSE FBSE \o Dec(capacity \div 1000) \o CharDot
              \o Dec((capacity % 1000) \div 100) \o CharS

\* the default product name based on the drive capacity
ProductName(capacity) ==
    IF capacity < 300 THEN PRODRIVE_LPS \o Dec(capacity) \o CharS
    ELSE IF capacity < 600 THEN MAVERICK \o Dec(capacity) \o CharS
    ELSE IF capacity < 800 THEN LIGHTNING \o Dec(capacity) \o CharS
    ELSE IF capacity < 1000 THEN TRAILBRAZER \o Dec(capacity) \o CharS
    ELSE IF capacity < 2000 THEN FIREBALL \o Dec(capacity) \o CharS
    ELSE FBSE \o Dec(capacity \div 1000) \o CharDot
              \o Dec((capacity % 1000) \div 100) \o CharS

----------------------------------------------------------------------------
(* Construction *)

Luns == {0, 1}

NoCall == [op |-> "none"]

\* the state the Disk base class constructs: not ready, no flags, no error,
\* 512-byte sectors, no blocks, no product name
DiskInit ==
    /\ ready = FALSE
    /\ locked = FALSE
    /\ attn = FALSE
    /\ reset = FALSE
    /\ status = STATUS_NOERROR
    /\ size = 9
    /\ blocks = ZeroBlocks
    /\ product = <<>>
    /\ lun \in Luns

\* SCSIHD::SCSIHD
Init ==
    /\ DiskInit
    /\ protect = TRUE
    /\ call = NoCall

----------------------------------------------------------------------------
(* Reset *)

\* Reset that does not release attention
ResetKeepsAttn ==
    /\ locked' = FALSE
    /\ reset' = FALSE
    /\ status' = STATUS_NOERROR
    /\ call' = [op |-> "Reset"]
    /\ UNCHANGED <<attn, ready, protect, size, blocks, product, lun>>

\* Reset that also drops the image
ResetClearsReady ==
    /\ locked' = FALSE
    /\ attn' = FALSE
    /\ reset' = FALSE
    /\ ready' = FALSE
    /\ status' = STATUS_NOERROR
    /\ call' = [op |-> "Reset"]
    /\ UNCHANGED <<protect, size, blocks, product, lun>>

Reset ==
    /\ locked' = FALSE
    /\ attn' = FALSE
    /\ reset' = FALSE
    /\ status' = STATUS_NOERROR
    /\ call' = [op |-> "Reset"]
    /\ UNCHANGED <<ready, protect, size, blocks, product, lun>>

\* the session flags are raised by the commands of the Disk base class and
\* by the controller
Dispatcher ==
    /\ \E l \in BOOLEAN, a \in BOOLEAN, r \in BOOLEAN :
          /\ <<l, a, r>> # <<locked, attn, reset>>
          /\ locked' = l
          /\ attn' = a
          /\ reset' = r
    /\ call' = [op |-> "Dispatcher"]
    /\ UNCHANGED <<ready, protect, status, size, blocks, product, lun>>

----------------------------------------------------------------------------
(* Open *)

\* the backing files offered to Open command by command: the capacities at
\* the product name thresholds, the capacity ceiling and its neighbours,
\* misaligned sizes
FileSizes ==
    { [mib |-> m, sec |-> 0, byt |-> 0] :
        m \in {0, 1, 299, 300, 599, 600, 799, 800, 999, 1000, 1999, 2000,
               2548, TwoPow21 - 1, TwoPow21, TwoPow21 + 1} }
    \cup { [mib |-> 1, sec |-> 1, byt |-> 0],
           [mib |-> TwoPow21 - 1, sec |-> SecPerMib - 1, byt |-> 0],
           [mib |-> TwoPow21, sec |-> 1, byt |-> 0],
           [mib |-> 0, sec |-> 0, byt |-> 1],
           [mib |-> 1, sec |-> 0, byt |-> 256],
           [mib |-> 300, sec |-> 5, byt |-> 511],
           [mib |-> TwoPow21, sec |-> 0, byt |-> 1] }

\* the backing files offered to Open in the life of a device
LifeFiles ==
    { [mib |-> 0, sec |-> 0, byt |-> 0],
      [mib |-> 1, sec |-> 1, byt |-> 0],
      [mib |-> 2000, sec |-> 0, byt |-> 0],
      [mib |-> TwoPow21, sec |-> 0, byt |-> 0],
      [mib |-> 1, sec |-> 0, byt |-> 256],
      [mib |-> TwoPow21, sec |-> 1, byt |-> 0] }

\* the message of the ioexception Open throws when the size check is 0xff
OpenErrorLoose(canOpen, fsize) ==
    IF ~canOpen THEN "Can't open hard disk file read-only"
    ELSE IF Low9Bits(fsize) % 256 # 0
    THEN "File size must be a multiple of 512 bytes"
    ELSE IF Exceeds2TB(fsize) THEN "File size must not exceed 2 TB"
    ELSE ""

\* the message of the ioexception Open throws, "" when it throws none
OpenError(canOpen, fsize) ==
    IF ~canOpen THEN "Can't open hard disk file read-only"
    ELSE IF Low9Bits(fsize) # 0
    THEN "File size must be a multiple of 512 bytes"
    ELSE IF Exceeds2TB(fsize) THEN "File size must not exceed 2 TB"
    ELSE ""

\* the steps of Open with the file closed only once the size is accepted
OpenStepsLateClose(canOpen, fsize) ==
    IF ~canOpen THEN <<"fio.OpenFailed", "throw">>
    ELSE <<"fio.Open", "fio.GetFileSize", "check512">>
         \o (IF Low9Bits(fsize) # 0 THEN <<"throw">>
             ELSE <<"check2TB">>
                  \o (IF Exceeds2TB(fsize) THEN <<"throw">>
                      ELSE <<"fio.Close", "disk.size", "disk.blocks",
                             "SetProduct", "Disk::Open", "SetPath">>))

\* the steps Open goes through, in order: the calls on the Fileio opened
\* read-only, the checks of the size, the assignments, the throw
OpenSteps(canOpen, fsize) ==
    IF ~canOpen THEN <<"fio.OpenFailed", "throw">>
    ELSE <<"fio.Open", "fio.GetFileSize", "fio.Close", "check512">>
         \o (IF Low9Bits(fsize) # 0 THEN <<"throw">>
             ELSE <<"check2TB">>
                  \o (IF Exceeds2TB(fsize) THEN <<"throw">>
                      ELSE <<"disk.size", "disk.blocks", "SetProduct",
                             "Disk::Open", "SetPath">>))

\* Disk::Open : the base class marks the device ready
DiskOpen == ready' = TRUE

\* SCSIHD::Open on the file of size fsize, which opens read-only iff canOpen
OpenWith(canOpen, fsize) ==
    LET err == OpenError(canOpen, fsize) IN
    /\ ~ready                                   \* ASSERT(!IsReady())
    /\ call' = [op |-> "Open", canOpen |-> canOpen, fsize |-> fsize,
                thrown |-> err, steps |-> OpenSteps(canOpen, fsize)]
    /\ IF err # ""
       THEN UNCHANGED devvars
       ELSE /\ size' = 9
            /\ blocks' = ToDWORD(ShiftRight9(fsize))
            /\ product' = ProductName(ShiftRight11(blocks'))
            /\ DiskOpen
            /\ UNCHANGED <<locked, attn, reset, protect, status, lun>>

Open == \E canOpen \in BOOLEAN, fsize \in LifeFiles : OpenWith(canOpen, fsize)

----------------------------------------------------------------------------
(* Bytes and buffers *)

\* (BYTE)x
Byte(x) == x % 256

\* bit test on a command descriptor byte, mask a power of two
BitSet(byte, mask) == (byte \div mask) % 2 = 1

\* buffers are 0-based in the program and 1-based sequences here
Rd(buf, i) == buf[i + 1]

\* n bytes of value v
Fill(n, v) == [i \in 1..n |-> v]

----------------------------------------------------------------------------
(* INQUIRY *)

\* (cdb[1] >> 5) & 0x07
CdbLun(cdb1) == (cdb1 \div 32) % 8

Space == 32

\* s cut or padded with spaces to exactly n characters
PadTo(s, n) == [i \in 1..n |-> IF i <= Len(s) THEN s[i] ELSE Space]

Vendor   == <<82, 97, 83, 67, 83, 73>>      \* "RaSCSI"
Revision == <<48, 49, 48, 48>>              \* "0100"

\* Device::GetPaddedName : vendor (8), product (16), revision (4)
GetPaddedName(prod) == PadTo(Vendor, 8) \o PadTo(prod, 16) \o PadTo(Revision, 4)

InquiryDataLen == 36     \* the 8 bytes of basic data and the 28 of the name

\* the buffers handed to Inquiry: InquiryDataLen bytes of one value
Fills == {0, 255}
InquiryBuffers == { Fill(InquiryDataLen, f) : f \in Fills }

\* the buffers handed to a single INQUIRY: room beyond the inquiry data
CmdInquiryBuffers == { Fill(InquiryDataLen + 4, f) : f \in Fills }

\* the values of a byte of the command descriptor
Bytes == 0..255

\* the command descriptors handed to Inquiry: cdb[1] and cdb[4]
InquiryCdb1 == {0, 1, 32, 33}
LifeAllocLens == {0, 4, 36, 255}

\* the inquiry data with the size left unclamped
InquiryDataNoClamp(cdb1, cdb4, buf, devLun, prod) ==
    LET name == GetPaddedName(prod)
        b0   == IF CdbLun(cdb1) # devLun THEN 127 ELSE 0
        out  == [i \in 1..Len(buf) |->
                   LET k == i - 1 IN
                   IF k = 0 THEN b0
                   ELSE IF k = 2 \/ k = 3 THEN 2
                   ELSE IF k = 4 THEN 122 + 3
                   ELSE IF k < 8 THEN 0
                   ELSE IF k < 8 + 28 THEN name[k - 7]
                   ELSE buf[i]]
    IN [ret |-> Rd(out, 4) + 5, code |-> STATUS_NOERROR, buf |-> out]

\* the inquiry data without the memset of the first 8 bytes
InquiryDataNoMemset(cdb1, cdb4, buf, devLun, prod) ==
    LET name == GetPaddedName(prod)
        out  == [i \in 1..Len(buf) |->
                   LET k == i - 1 IN
                   IF k = 0 /\ CdbLun(cdb1) # devLun THEN 127
                   ELSE IF k = 2 \/ k = 3 THEN 2
                   ELSE IF k = 4 THEN 122 + 3
                   ELSE IF k >= 8 /\ k < 8 + 28 THEN name[k - 7]
                   ELSE buf[i]]
        full == Rd(out, 4) + 5
        sz   == IF full > cdb4 THEN cdb4 ELSE full
    IN [ret |-> sz, code |-> STATUS_NOERROR, buf |-> out]

\* the inquiry data with a name of 32 characters copied
InquiryDataLongName(cdb1, cdb4, buf, devLun, prod) ==
    LET name == PadTo(GetPaddedName(prod), 32)
        b0   == IF CdbLun(cdb1) # devLun THEN 127 ELSE 0
        out  == [i \in 1..Len(buf) |->
                   LET k == i - 1 IN
                   IF k = 0 THEN b0
                   ELSE IF k = 2 \/ k = 3 THEN 2
                   ELSE IF k = 4 THEN 122 + 3
                   ELSE IF k < 8 THEN 0
                   ELSE IF k < 8 + 32 THEN name[k - 7]
                   ELSE buf[i]]
        full == Rd(out, 4) + 5
        sz   == IF full > cdb4 THEN cdb4 ELSE full
    IN [ret |-> sz, code |-> STATUS_NOERROR, buf |-> out]

\* the inquiry data with an allocation length of 0 taken as no limit
InquiryDataZeroUnlimited(cdb1, cdb4, buf, devLun, prod) ==
    LET name == GetPaddedName(prod)
        b0   == IF CdbLun(cdb1) # devLun THEN 127 ELSE 0
        out  == [i \in 1..Len(buf) |->
                   LET k == i - 1 IN
                   IF k = 0 THEN b0
                   ELSE IF k = 2 \/ k = 3 THEN 2
                   ELSE IF k = 4 THEN 122 + 3
                   ELSE IF k < 8 THEN 0
                   ELSE IF k < 8 + 28 THEN name[k - 7]
                   ELSE buf[i]]
        full == Rd(out, 4) + 5
        sz   == IF cdb4 # 0 /\ full > cdb4 THEN cdb4 ELSE full
    IN [ret |-> sz, code |-> STATUS_NOERROR, buf |-> out]

\* the inquiry data written over buf and the size returned for it
InquiryData(cdb1, cdb4, buf, devLun, prod) ==
    LET name == GetPaddedName(prod)
        b0   == IF CdbLun(cdb1) # devLun THEN 127 ELSE 0
        out  == [i \in 1..Len(buf) |->
                   LET k == i - 1 IN
                   IF k = 0 THEN b0
                   ELSE IF k = 2 \/ k = 3 THEN 2
                   ELSE IF k = 4 THEN 122 + 3
                   ELSE IF k < 8 THEN 0
                   ELSE IF k < 8 + 28 THEN name[k - 7]
                   ELSE buf[i]]
        full == Rd(out, 4) + 5
        sz   == IF full > cdb4 THEN cdb4 ELSE full
    IN [ret |-> sz, code |-> STATUS_NOERROR, buf |-> out]

\* Inquiry without the ready check
InquiryNoReadyCheck(cdb1, cdb4, buf, isReady, devLun, prod) ==
    IF BitSet(cdb1, 1)
    THEN [ret |-> 0, code |-> STATUS_INVALIDCDB, buf |-> buf]
    ELSE InquiryData(cdb1, cdb4, buf, devLun, prod)

\* Inquiry with the ready check ahead of the EVPD check
InquiryReadyFirst(cdb1, cdb4, buf, isReady, devLun, prod) ==
    IF ~isReady
    THEN [ret |-> 0, code |-> STATUS_NOTREADY, buf |-> buf]
    ELSE IF BitSet(cdb1, 1)
    THEN [ret |-> 0, code |-> STATUS_INVALIDCDB, buf |-> buf]
    ELSE InquiryData(cdb1, cdb4, buf, devLun, prod)

\* SCSIHD::Inquiry : the returned size, the status code set, the buffer left
Inquiry(cdb1, cdb4, buf, isReady, devLun, prod) ==
    IF BitSet(cdb1, 1)
    THEN [ret |-> 0, code |-> STATUS_INVALIDCDB, buf |-> buf]
    ELSE IF ~isReady
    THEN [ret |-> 0, code |-> STATUS_NOTREADY, buf |-> buf]
    ELSE InquiryData(cdb1, cdb4, buf, devLun, prod)

\* the INQUIRY command with descriptor bytes cdb1, cdb4 and buffer buf
InquiryWith(cdb1, cdb4, buf) ==
    LET r == Inquiry(cdb1, cdb4, buf, ready, lun, product) IN
    /\ status' = r.code
    /\ call' = [op |-> "Inquiry", cdb1 |-> cdb1, cdb4 |-> cdb4,
                bufIn |-> buf, buf |-> r.buf, ret |-> r.ret]
    /\ UNCHANGED <<ready, locked, attn, reset, protect, size, blocks,
                   product, lun>>

InquiryCmd ==
    \E cdb1 \in InquiryCdb1, cdb4 \in LifeAllocLens, buf \in InquiryBuffers :
        InquiryWith(cdb1, cdb4, buf)

----------------------------------------------------------------------------
(* MODE SELECT *)

\* the header check without its most significant byte
HeaderMismatchLow16(buf, sz) ==
    IF Rd(buf, 10) # Byte(sz \div 256)
    THEN [bad |-> TRUE, reads |-> {10}]
    ELSE IF Rd(buf, 11) # Byte(sz)
    THEN [bad |-> TRUE, reads |-> {10, 11}]
    ELSE [bad |-> FALSE, reads |-> {10, 11}]

\* the check of the block length bytes of the mode parameter header, and the
\* buffer indices it reads (|| stops at the first byte that differs)
HeaderMismatch(buf, sz) ==
    IF Rd(buf, 9) # Byte(sz \div 65536)
    THEN [bad |-> TRUE, reads |-> {9}]
    ELSE IF Rd(buf, 10) # Byte(sz \div 256)
    THEN [bad |-> TRUE, reads |-> {9, 10}]
    ELSE IF Rd(buf, 11) # Byte(sz)
    THEN [bad |-> TRUE, reads |-> {9, 10, 11}]
    ELSE [bad |-> FALSE, reads |-> {9, 10, 11}]

\* the switch on the page code that lets a format device page through
PageCheckNoReturn(buf, off, length, sz) ==
    LET page == Rd(buf, off) IN
    IF page = 3 THEN [fail |-> FALSE, reads |-> {off + 12, off + 13}]
    ELSE IF page = 8
    THEN [fail |-> FALSE, reads |-> {off + i : i \in 0..(length - 1)}]
    ELSE [fail |-> FALSE, reads |-> {}]

\* the switch on the page code that rejects the pages it does not know
PageCheckStrict(buf, off, length, sz) ==
    LET page == Rd(buf, off) IN
    IF page = 3
    THEN IF Rd(buf, off + 12) # Byte(sz \div 256)
         THEN [fail |-> TRUE, reads |-> {off + 12}]
         ELSE IF Rd(buf, off + 13) # Byte(sz)
         THEN [fail |-> TRUE, reads |-> {off + 12, off + 13}]
         ELSE [fail |-> FALSE, reads |-> {off + 12, off + 13}]
    ELSE IF page = 8
    THEN [fail |-> FALSE, reads |-> {off + i : i \in 0..(length - 1)}]
    ELSE [fail |-> TRUE, reads |-> {}]

\* the switch on the page code of the page at offset off, of which length
\* bytes remain: whether it returns FALSE, and the buffer indices it reads
\* besides the page code
PageCheck(buf, off, length, sz) ==
    LET page == Rd(buf, off) IN
    IF page = 3
    THEN IF Rd(buf, off + 12) # Byte(sz \div 256)
         THEN [fail |-> TRUE, reads |-> {off + 12}]
         ELSE IF Rd(buf, off + 13) # Byte(sz)
         THEN [fail |-> TRUE, reads |-> {off + 12, off + 13}]
         ELSE [fail |-> FALSE, reads |-> {off + 12, off + 13}]
    ELSE IF page = 8
    THEN [fail |-> FALSE, reads |-> {off + i : i \in 0..(length - 1)}]
    ELSE [fail |-> FALSE, reads |-> {}]

RECURSIVE ParsePagesStep1(_, _, _, _, _, _)
\* the loop over the pages advancing by the page length plus 1
ParsePagesStep1(buf, sz, off, length, reads, pages) ==
    IF length <= 0
    THEN [ok |-> TRUE, reads |-> reads, pages |-> pages]
    ELSE LET c  == PageCheck(buf, off, length, sz)
             r1 == reads \cup {off} \cup c.reads
             p1 == Append(pages, off)
         IN IF c.fail
            THEN [ok |-> FALSE, reads |-> r1, pages |-> p1]
            ELSE LET adv == Rd(buf, off + 1) + 1
                 IN ParsePagesStep1(buf, sz, off + adv, length - adv,
                                    r1 \cup {off + 1}, p1)

RECURSIVE ParsePages(_, _, _, _, _, _)
\* the loop over the pages, from offset off with length bytes remaining:
\* whether it ran to the end, the indices read, the offsets of the pages
\* whose code it fetched
ParsePages(buf, sz, off, length, reads, pages) ==
    IF length <= 0
    THEN [ok |-> TRUE, reads |-> reads, pages |-> pages]
    ELSE LET c  == PageCheck(buf, off, length, sz)
             r1 == reads \cup {off} \cup c.reads
             p1 == Append(pages, off)
         IN IF c.fail
            THEN [ok |-> FALSE, reads |-> r1, pages |-> p1]
            ELSE LET adv == Rd(buf, off + 1) + 2
                 IN ParsePages(buf, sz, off + adv, length - adv,
                               r1 \cup {off + 1}, p1)

\* what ModeSelect does once the PF bit is known to be set
ModeSelectPF(dsize, buf, length) ==
    LET sz  == 2 ^ dsize
        hdr == IF length >= 12 THEN HeaderMismatch(buf, sz)
               ELSE [bad |-> FALSE, reads |-> {}]
    IN IF hdr.bad
       THEN [ret |-> FALSE, code |-> STATUS_INVALIDPRM, reads |-> hdr.reads,
             pages |-> <<>>]
       ELSE LET off == IF length >= 12 THEN 12 ELSE 0
                p   == ParsePages(buf, sz, off, length - off, hdr.reads, <<>>)
            IN IF p.ok
               THEN [ret |-> TRUE, code |-> STATUS_NOERROR, reads |-> p.reads,
                     pages |-> p.pages]
               ELSE [ret |-> FALSE, code |-> STATUS_INVALIDPRM,
                     reads |-> p.reads, pages |-> p.pages]

\* ModeSelect validating whatever the PF bit
ModeSelectAlways(dsize, cdb1, buf, length) == ModeSelectPF(dsize, buf, length)

\* SCSIHD::ModeSelect : the returned BOOL, the status code set, the buffer
\* indices read and the offsets of the pages examined
ModeSelect(dsize, cdb1, buf, length) ==
    IF BitSet(cdb1, 16)
    THEN ModeSelectPF(dsize, buf, length)
    ELSE [ret |-> TRUE, code |-> STATUS_NOERROR, reads |-> {}, pages |-> <<>>]

\* the exponent of a block length that is a power of two, else e
ExponentOr(len, e) ==
    IF \E k \in 0..23 : 2 ^ k = len THEN CHOOSE k \in 0..23 : 2 ^ k = len ELSE e

\* the block length of the mode parameter header
HeaderBlockLength(buf) == Rd(buf, 9) * 65536 + Rd(buf, 10) * 256 + Rd(buf, 11)

\* the MODE SELECT command that adopts the sector length of the header
ModeSelectWithResize(cdb1, buf, length) ==
    LET r == ModeSelect(size, cdb1, buf, length) IN
    /\ status' = STATUS_NOERROR
    /\ size' = IF BitSet(cdb1, 16) /\ length >= 12
               THEN ExponentOr(HeaderBlockLength(buf), size) ELSE size
    /\ call' = [op |-> "ModeSelect", cdb1 |-> cdb1, buf |-> buf,
                length |-> length, ret |-> TRUE, reads |-> r.reads,
                pages |-> r.pages]
    /\ UNCHANGED <<ready, locked, attn, reset, protect, blocks, product, lun>>

\* the MODE SELECT command that sets no status code when it succeeds
ModeSelectWithKeepStatus(cdb1, buf, length) ==
    LET r == ModeSelect(size, cdb1, buf, length) IN
    /\ status' = IF r.ret THEN status ELSE r.code
    /\ call' = [op |-> "ModeSelect", cdb1 |-> cdb1, buf |-> buf,
                length |-> length, ret |-> r.ret, reads |-> r.reads,
                pages |-> r.pages]
    /\ UNCHANGED <<ready, locked, attn, reset, protect, size, blocks,
                   product, lun>>

\* the MODE SELECT command with descriptor byte cdb1 and length bytes of buf
ModeSelectWith(cdb1, buf, length) ==
    LET r == ModeSelect(size, cdb1, buf, length) IN
    /\ status' = r.code
    /\ call' = [op |-> "ModeSelect", cdb1 |-> cdb1, buf |-> buf,
                length |-> length, ret |-> r.ret, reads |-> r.reads,
                pages |-> r.pages]
    /\ UNCHANGED <<ready, locked, attn, reset, protect, size, blocks,
                   product, lun>>

(* The parameter blocks handed to MODE SELECT.  A block is a piece of memory
   and a length; the memory goes on after the length (Slack bytes at least),
   so that what a read beyond the length returns is whatever the memory
   holds there. *)

MaxPages == 3

Slack == Fill(13, 0)

Header(h) == Fill(9, 0) \o h

Headers == {<<>>} \cup { Header(h) : h \in {<<0, 2, 0>>, <<0, 4, 0>>,
                                           <<1, 2, 0>>, <<0, 2, 1>>} }

Page3(b12, b13) == <<3, 12>> \o Fill(10, 0) \o <<b12, b13>>

PageTemplates == {Page3(2, 0), Page3(4, 0), <<3, 0>>, <<8, 2, 0, 0>>,
                  <<48, 1, 0>>}

RECURSIVE PageSeqs(_)
PageSeqs(n) ==
    IF n = 0 THEN {<<>>}
    ELSE {<<>>} \cup { t \o s : t \in PageTemplates, s \in PageSeqs(n - 1) }

LifeModeParams ==
    { [cdb1 |-> c, buf |-> b \o Slack, length |-> Len(b)] :
        c \in {0, 16},
        b \in { Header(<<0, 2, 0>>), Header(<<0, 4, 0>>),
                Header(<<0, 2, 0>>) \o Page3(2, 0),
                Header(<<0, 2, 0>>) \o Page3(4, 0),
                Header(<<0, 2, 0>>) \o <<48, 1, 0>>,
                <<3>> } }

ModeSelectCmd ==
    \E p \in LifeModeParams : ModeSelectWith(p.cdb1, p.buf, p.length)

----------------------------------------------------------------------------
(* The life of a device: any sequence of commands *)

Next == Reset \/ Dispatcher \/ Open \/ InquiryCmd \/ ModeSelectCmd

Spec == Init /\ [][Next]_vars

----------------------------------------------------------------------------
(* One command on a device: construction, or construction and the Open of
   RefFile, then a single Open, INQUIRY or MODE SELECT *)

RefFile == [mib |-> 1, sec |-> 1, byt |-> 0]

PendingOpen(canOpen, fsize) ==
    [op |-> "pending", cmd |-> "Open", canOpen |-> canOpen, fsize |-> fsize]

PendingModeSelect(cdb1, buf, length) ==
    [op |-> "pending", cmd |-> "ModeSelect", cdb1 |-> cdb1, buf |-> buf,
     length |-> length]

PendingInquiry(cdb1, cdb4, buf) ==
    [op |-> "pending", cmd |-> "Inquiry", cdb1 |-> cdb1, cdb4 |-> cdb4,
     buf |-> buf]

\* the state of a device after construction
Constructed ==
    /\ ready = FALSE
    /\ size = 9
    /\ blocks = ZeroBlocks
    /\ product = <<>>

\* the state of a device after construction and the Open of RefFile
Opened ==
    /\ ready = TRUE
    /\ size = 9
    /\ blocks = ToDWORD(ShiftRight9(RefFile))
    /\ product = ProductName(ShiftRight11(blocks))

InitCmd ==
    /\ locked = FALSE
    /\ attn = FALSE
    /\ reset = FALSE
    /\ status = STATUS_NOERROR
    /\ protect = TRUE
    /\ \/ /\ Constructed
          /\ lun = 0
          /\ \E c \in BOOLEAN, f \in FileSizes : call = PendingOpen(c, f)
       \/ /\ Constructed \/ Opened
          /\ lun \in Luns
          \* every allocation length, with and without EVPD, for both luns
          /\ \E c1 \in InquiryCdb1, c4 \in Bytes, b \in CmdInquiryBuffers :
               call = PendingInquiry(c1, c4, b)
       \/ /\ Opened
          /\ lun = 0
          \* PF set: every prefix length of every header followed by up to
          \* MaxPages pages
          /\ \E h \in Headers, s \in PageSeqs(MaxPages) :
               \E l \in 0..Len(h \o s) :
                 call = PendingModeSelect(16, (h \o s) \o Slack, l)
       \/ /\ Opened
          /\ lun = 0
          \* PF clear: every header followed by at most one page
          /\ \E c \in {0, 1, 32}, h \in Headers, s \in PageSeqs(1) :
               call = PendingModeSelect(c, (h \o s) \o Slack, Len(h \o s))

RunOpen ==
    /\ call.op = "pending"
    /\ call.cmd = "Open"
    /\ OpenWith(call.canOpen, call.fsize)

RunModeSelect ==
    /\ call.op = "pending"
    /\ call.cmd = "ModeSelect"
    /\ ModeSelectWith(call.cdb1, call.buf, call.length)

RunInquiry ==
    /\ call.op = "pending"
    /\ call.cmd = "Inquiry"
    /\ InquiryWith(call.cdb1, call.cdb4, call.buf)

NextCmd == RunOpen \/ RunInquiry \/ RunModeSelect

SpecCmd == InitCmd /\ [][NextCmd]_vars
----------------------------------------------------------------------------
(* Properties *)

IsOpen       == call.op = "Open"
IsInquiry    == call.op = "Inquiry"
IsModeSelect == call.op = "ModeSelect"

\* the PF bit of a MODE SELECT descriptor, the EVPD bit of an INQUIRY one
PF(c)   == BitSet(c.cdb1, 16)
EVPD(c) == BitSet(c.cdb1, 1)

\* the sector size in bytes
SectorSize(e) == 2 ^ e

\* the file size is at most 2^41 bytes
AtMost2TB(f) ==
    \/ f.mib < TwoPow21
    \/ f.mib = TwoPow21 /\ f.sec = 0 /\ f.byt = 0

\* the file size divided by 512, not truncated
Div512(f) == [hi |-> f.mib, lo |-> f.sec]

(* C1: for every file size that is a multiple of 512 and at most 2^41, Open
   succeeds, sets the sector size exponent to 9 and the block count to
   exactly the size divided by 512. *)
C1_OpenBlockCount ==
    (IsOpen /\ call.canOpen /\ call.fsize.byt = 0 /\ AtMost2TB(call.fsize))
      => /\ call.thrown = ""
         /\ ready
         /\ size = 9
         /\ blocks = Div512(call.fsize)

(* C2: MODE SELECT with the PF bit set reads no buffer index at or beyond
   the length it was given. *)
C2_ReadsInBounds ==
    (IsModeSelect /\ PF(call)) => \A i \in call.reads : i < call.length

(* C3: once the device is ready, no Reset, INQUIRY or MODE SELECT changes
   the sector size exponent or the block count. *)
C3_GeometryFixed ==
    [][(ready /\ call'.op \in {"Reset", "Inquiry", "ModeSelect"})
         => (size' = size /\ blocks' = blocks)]_vars

C3_Witness ==
    /\ ready
    /\ IsModeSelect /\ PF(call) /\ call.length >= 12
    /\ HeaderBlockLength(call.buf) = 1024
    /\ blocks = [hi |-> 1, lo |-> 1]

(* C4: MODE SELECT with the PF bit set, a length of at least 12 and a header
   block length that differs from the sector size returns FALSE, sets the
   status INVALIDPRM, leaves the geometry alone and examines no page. *)
C4_HeaderMismatch ==
    [][(/\ call'.op = "ModeSelect" /\ PF(call') /\ call'.length >= 12
        /\ HeaderBlockLength(call'.buf) # SectorSize(size))
         => /\ call'.ret = FALSE
            /\ status' = STATUS_INVALIDPRM
            /\ size' = size /\ blocks' = blocks
            /\ call'.pages = <<>>
            /\ \A i \in call'.reads : i < 12]_vars

C4_Witness ==
    /\ IsModeSelect /\ PF(call) /\ call.length > 12
    /\ Rd(call.buf, 9) = 1 /\ Rd(call.buf, 10) = 2 /\ Rd(call.buf, 11) = 0
    /\ call.ret = FALSE

\* where the pages start: after the header when there is one
PageStart(c) == IF c.length >= 12 THEN 12 ELSE 0

\* the header, when there is one, carries the sector size
HeaderAgrees(c, e) ==
    c.length >= 12 => HeaderBlockLength(c.buf) = SectorSize(e)

\* the two bytes at offsets 0xC and 0xD of the page at off, big-endian
PageSectorSize(buf, off) == Rd(buf, off + 12) * 256 + Rd(buf, off + 13)

RECURSIVE FirstBadPage(_, _, _, _)
\* the offset of the first page, from off with rem bytes remaining, that has
\* code 3 and a sector size other than sz; -1 when there is none
FirstBadPage(buf, off, rem, sz) ==
    IF rem <= 0 THEN -1
    ELSE IF Rd(buf, off) = 3 /\ PageSectorSize(buf, off) # sz THEN off
    ELSE FirstBadPage(buf, off + Rd(buf, off + 1) + 2,
                      rem - (Rd(buf, off + 1) + 2), sz)

BadPage(c, e) ==
    FirstBadPage(c.buf, PageStart(c), c.length - PageStart(c), SectorSize(e))

(* C5: the first page with code 3 whose sector size bytes differ from the
   sector size makes MODE SELECT return FALSE with the status INVALIDPRM,
   and it is the last page examined, whatever the pages before it. *)
C5_FirstBadPageAborts ==
    (IsModeSelect /\ PF(call) /\ HeaderAgrees(call, size)
       /\ BadPage(call, size) >= 0)
      => /\ call.ret = FALSE
         /\ status = STATUS_INVALIDPRM
         /\ call.pages # <<>>
         /\ call.pages[Len(call.pages)] = BadPage(call, size)
         /\ \A k \in 1..Len(call.pages) : call.pages[k] <= BadPage(call, size)

C5_Witness ==
    /\ IsModeSelect /\ PF(call) /\ HeaderAgrees(call, size)
    /\ BadPage(call, size) > PageStart(call)
    /\ BadPage(call, size) + 14 < call.length
    /\ call.ret = FALSE

RECURSIVE WellFormedPages(_, _, _, _)
\* the rem bytes from off are whole pages, each at least as long as it
\* declares, and every page with code 3 is long enough to hold its sector
\* size and holds sz
WellFormedPages(buf, off, rem, sz) ==
    IF rem = 0 THEN TRUE
    ELSE IF rem < 2 THEN FALSE
    ELSE LET total == Rd(buf, off + 1) + 2 IN
         /\ total <= rem
         /\ Rd(buf, off) = 3 => (total >= 14 /\ PageSectorSize(buf, off) = sz)
         /\ WellFormedPages(buf, off + total, rem - total, sz)

RECURSIVE PageOffsets(_, _, _)
\* the offsets of the pages of a well-formed block
PageOffsets(buf, off, rem) ==
    IF rem <= 0 THEN <<>>
    ELSE <<off>> \o PageOffsets(buf, off + Rd(buf, off + 1) + 2,
                                rem - (Rd(buf, off + 1) + 2))

WellFormed(c, e) ==
    /\ c.length >= 12
    /\ HeaderBlockLength(c.buf) = SectorSize(e)
    /\ WellFormedPages(c.buf, 12, c.length - 12, SectorSize(e))

(* C6: MODE SELECT with the PF bit set returns TRUE with the status NOERROR
   for every well-formed block whose header carries the sector size and
   whose pages with code 3 carry it too; every page of the block is
   examined, whatever the codes of the pages before it. *)
C6_WellFormedSucceeds ==
    (IsModeSelect /\ PF(call) /\ WellFormed(call, size))
      => /\ call.ret = TRUE
         /\ status = STATUS_NOERROR
         /\ call.pages = PageOffsets(call.buf, 12, call.length - 12)

C6_Witness ==
    /\ IsModeSelect /\ PF(call) /\ WellFormed(call, size)
    /\ Len(call.pages) = 3
    /\ Rd(call.buf, call.pages[1]) = 3
    /\ Rd(call.buf, call.pages[2]) = 48
    /\ Rd(call.buf, call.pages[3]) = 8
    /\ call.ret = TRUE

(* C7: MODE SELECT with the PF bit clear returns TRUE, sets the status
   NOERROR and reads no byte of the buffer, whatever the buffer holds. *)
C7_NoPFNoValidation ==
    (IsModeSelect /\ ~PF(call))
      => /\ call.ret = TRUE
         /\ status = STATUS_NOERROR
         /\ call.reads = {}

C7_Witness ==
    /\ IsModeSelect /\ ~PF(call) /\ call.cdb1 # 0
    /\ call.length >= 12 + 14
    /\ HeaderBlockLength(call.buf) # SectorSize(size)
    /\ Rd(call.buf, 12) = 3 /\ PageSectorSize(call.buf, 12) # SectorSize(size)
    /\ call.ret = TRUE

(* C8: when the file cannot be opened read-only, or its size is not a
   multiple of 512 or exceeds 2^41, Open throws and leaves the device as it
   was: not ready, with the same geometry and product name. *)
C8_OpenFailureKeepsState ==
    [][(/\ call'.op = "Open"
        /\ \/ ~call'.canOpen
           \/ call'.fsize.byt # 0
           \/ ~AtMost2TB(call'.fsize))
         => /\ call'.thrown # ""
            /\ ready' = FALSE
            /\ size' = size /\ blocks' = blocks /\ product' = product]_vars

C8_Witness ==
    /\ IsOpen /\ call.canOpen /\ call.fsize.byt = 256
    /\ call.thrown = "File size must be a multiple of 512 bytes"
    /\ ~ready

\* the product name of a capacity, by disjoint ranges
NameOfCapacity(c) ==
    CASE c \in 0..299          -> PRODRIVE_LPS \o Dec(c) \o CharS
      [] c \in 300..599        -> MAVERICK \o Dec(c) \o CharS
      [] c \in 600..799        -> LIGHTNING \o Dec(c) \o CharS
      [] c \in 800..999        -> TRAILBRAZER \o Dec(c) \o CharS
      [] c \in 1000..1999      -> FIREBALL \o Dec(c) \o CharS
      [] c >= 2000             -> FBSE \o Dec(c \div 1000) \o CharDot
                                    \o Dec((c % 1000) \div 100) \o CharS

\* the names at the thresholds, character by character
NameAtThreshold ==
    [c \in {299, 300, 599, 600, 799, 800, 999, 1000, 1999, 2000} |->
      CASE c = 299  -> <<80, 82, 79, 68, 82, 73, 86, 69, 32, 76, 80, 83,
                         50, 57, 57, 83>>           \* PRODRIVE LPS299S
        [] c = 300  -> <<77, 65, 86, 69, 82, 73, 67, 75, 51, 48, 48, 83>>
                                                    \* MAVERICK300S
        [] c = 599  -> <<77, 65, 86, 69, 82, 73, 67, 75, 53, 57, 57, 83>>
                                                    \* MAVERICK599S
        [] c = 600  -> <<76, 73, 71, 72, 84, 78, 73, 78, 71, 54, 48, 48, 83>>
                                                    \* LIGHTNING600S
        [] c = 799  -> <<76, 73, 71, 72, 84, 78, 73, 78, 71, 55, 57, 57, 83>>
                                                    \* LIGHTNING799S
        [] c = 800  -> <<84, 82, 65, 73, 76, 66, 82, 65, 90, 69, 82,
                         56, 48, 48, 83>>           \* TRAILBRAZER800S
        [] c = 999  -> <<84, 82, 65, 73, 76, 66, 82, 65, 90, 69, 82,
                         57, 57, 57, 83>>           \* TRAILBRAZER999S
        [] c = 1000 -> <<70, 73, 82, 69, 66, 65, 76, 76, 49, 48, 48, 48, 83>>
                                                    \* FIREBALL1000S
        [] c = 1999 -> <<70, 73, 82, 69, 66, 65, 76, 76, 49, 57, 57, 57, 83>>
                                                    \* FIREBALL1999S
        [] c = 2000 -> <<70, 66, 83, 69, 50, 46, 48, 83>>]
                                                    \* FBSE2.0S

(* C9: after a successful Open the product name is the template of the
   range the capacity (block count >> 11) falls in, and at the thresholds
   it is the name the specification spells out. *)
C9_ProductName ==
    (IsOpen /\ call.thrown = "")
      => /\ product = NameOfCapacity(blocks.hi)
         /\ blocks.hi \in DOMAIN NameAtThreshold
              => product = NameAtThreshold[blocks.hi]

C9_Witness ==
    /\ IsOpen /\ call.thrown = ""
    /\ blocks.hi = 300
    /\ product = NameAtThreshold[300]

(* C10: INQUIRY with the EVPD bit set returns 0, sets the status INVALIDCDB
   and writes nothing to the buffer, on a ready device and on one that is
   not ready. *)
C10_EvpdRejected ==
    (IsInquiry /\ EVPD(call))
      => /\ call.ret = 0
         /\ status = STATUS_INVALIDCDB
         /\ call.buf = call.bufIn

C10_Witness ==
    /\ IsInquiry /\ EVPD(call)
    /\ ~ready
    /\ status = STATUS_INVALIDCDB

\* the buffer indices of an INQUIRY call
Indices(c) == 0..(Len(c.buf) - 1)

\* the call left the byte at index k as it was
Kept(c, k) == Rd(c.buf, k) = Rd(c.bufIn, k)

(* C11: INQUIRY with the EVPD bit clear on a device that is not ready
   returns 0, sets the status NOTREADY and leaves the buffer as it was. *)
C11_NotReadyRejected ==
    (IsInquiry /\ ~EVPD(call) /\ ~ready)
      => /\ call.ret = 0
         /\ status = STATUS_NOTREADY
         /\ call.buf = call.bufIn

C11_Witness ==
    /\ IsInquiry /\ ~EVPD(call) /\ ~ready
    /\ call.cdb4 = 255
    /\ status = STATUS_NOTREADY

\* the smaller of two numbers
Min(a, b) == IF a < b THEN a ELSE b

(* C12: on a ready device INQUIRY with the EVPD bit clear returns
   min(130, cdb[4]) for every allocation length and sets the status
   NOERROR. *)
C12_ResponseSize ==
    (IsInquiry /\ ~EVPD(call) /\ ready)
      => /\ call.ret = Min(130, call.cdb4)
         /\ status = STATUS_NOERROR

C12_Witness ==
    /\ IsInquiry /\ ~EVPD(call) /\ ready
    /\ call.cdb4 = 200
    /\ call.ret = 130

(* C13: on a ready device INQUIRY with the EVPD bit clear leaves, whatever
   the buffer held: byte 0 = 0 when the lun of the descriptor is the lun of
   the device and 0x7f otherwise, bytes 1, 5, 6, 7 = 0, bytes 2 and 3 = 2,
   byte 4 = 125, bytes 8..35 = the padded vendor, product and revision. *)
C13_ResponseLayout ==
    (IsInquiry /\ ~EVPD(call) /\ ready)
      => /\ Rd(call.buf, 0) = IF CdbLun(call.cdb1) = lun THEN 0 ELSE 127
         /\ \A k \in {1, 5, 6, 7} : Rd(call.buf, k) = 0
         /\ Rd(call.buf, 2) = 2 /\ Rd(call.buf, 3) = 2
         /\ Rd(call.buf, 4) = 125
         /\ \A k \in 8..35 : Rd(call.buf, k) = GetPaddedName(product)[k - 7]
         /\ \A i \in 1..Len(product) : Rd(call.buf, 15 + i) = product[i]
         /\ \A i \in (Len(product) + 1)..16 : Rd(call.buf, 15 + i) = Space

C13_Witness ==
    /\ IsInquiry /\ ~EVPD(call) /\ ready
    /\ Rd(call.bufIn, 0) = 255
    /\ CdbLun(call.cdb1) = lun
    /\ Rd(call.buf, 0) = 0

(* C14, as stated: INQUIRY changes no byte of the buffer at an index at or
   beyond the size it returns. *)
C14_WritesBelowRet ==
    IsInquiry => \A k \in Indices(call) : k >= call.ret => Kept(call, k)

(* C14, amended: INQUIRY changes no byte of the buffer at an index at or
   beyond 36, and no byte at all when it rejects the command; an accepted
   command writes the 36 bytes of inquiry data whatever size it returns. *)
C14_WritesWithinInquiryData ==
    IsInquiry
      => /\ \A k \in Indices(call) : k >= 36 => Kept(call, k)
         /\ status # STATUS_NOERROR => call.buf = call.bufIn
         /\ status = STATUS_NOERROR
              => /\ Rd(call.buf, 4) = 125
                 /\ \A k \in 8..35 :
                      Rd(call.buf, k) = GetPaddedName(product)[k - 7]

C14_Witness ==
    /\ IsInquiry /\ ~EVPD(call) /\ ready
    /\ call.cdb4 = 4 /\ call.ret = 4
    /\ ~Kept(call, 35)
    /\ Len(call.buf) > 36

(* C15, as stated: INQUIRY returns 0 exactly when it leaves an error
   status. *)
C15_ZeroIffRejected ==
    IsInquiry
      => (call.ret = 0 <=> status \in {STATUS_INVALIDCDB, STATUS_NOTREADY})

(* C15, amended: INQUIRY returns 0 exactly when it leaves an error status
   or the allocation length of the descriptor is 0. *)
C15_ZeroIffRejectedOrNoRoom ==
    IsInquiry
      => (call.ret = 0 <=> (\/ status \in {STATUS_INVALIDCDB, STATUS_NOTREADY}
                            \/ call.cdb4 = 0))

C15_Witness ==
    /\ IsInquiry /\ ~EVPD(call) /\ ready
    /\ call.cdb4 = 0
    /\ call.ret = 0
    /\ status = STATUS_NOERROR

(* C16: Reset clears locked, attention and reset, sets the status NOERROR,
   leaves readiness, geometry, product name and write protection alone, and
   a Reset that follows a Reset changes nothing. *)
C16_Reset ==
    [][call'.op = "Reset"
         => /\ locked' = FALSE /\ attn' = FALSE /\ reset' = FALSE
            /\ status' = STATUS_NOERROR
            /\ UNCHANGED <<ready, size, blocks, product, protect>>
            /\ call.op = "Reset" => UNCHANGED vars]_vars

C16_Witness ==
    /\ call.op = "Reset"
    /\ ready
    /\ ~locked /\ ~attn /\ ~reset
    /\ status = STATUS_NOERROR
    /\ blocks = [hi |-> 2000, lo |-> 0]

(* C17: the device starts not ready, and readiness changes only from not
   ready to ready and only in an Open that throws nothing; no Reset,
   INQUIRY, MODE SELECT or failed Open changes it. *)
C17_ReadyMonotone ==
    /\ ~ready
    /\ [][ready' # ready
            => /\ ~ready /\ ready'
               /\ call'.op = "Open" /\ call'.thrown = ""]_vars

C17_Witness ==
    /\ ready
    /\ IsModeSelect /\ call.ret = FALSE
    /\ status = STATUS_INVALIDPRM

\* the status a command leaves, as the outcome recorded for it tells
StatusOfOutcome(c, isReady) ==
    CASE c.op = "Reset" -> STATUS_NOERROR
      [] c.op = "Inquiry" ->
           IF EVPD(c) THEN STATUS_INVALIDCDB
           ELSE IF ~isReady THEN STATUS_NOTREADY
           ELSE STATUS_NOERROR
      [] c.op = "ModeSelect" ->
           IF c.ret THEN STATUS_NOERROR ELSE STATUS_INVALIDPRM

(* C18, as stated: after every handler the status is the outcome of that
   call; in particular after an Open it is not an error code left by an
   earlier command. *)
C18_StatusOfLastCall ==
    /\ call.op \in {"Reset", "Inquiry", "ModeSelect"}
         => status = StatusOfOutcome(call, ready)
    /\ IsOpen
         => status \notin {STATUS_NOTREADY, STATUS_INVALIDCDB,
                           STATUS_INVALIDPRM}

(* C18, amended: after every Reset, INQUIRY and MODE SELECT the status is
   the outcome of that call; an Open that throws leaves the status as the
   earlier command left it. *)
C18_StatusOfLastCommand ==
    [][/\ call'.op \in {"Reset", "Inquiry", "ModeSelect"}
            => status' = StatusOfOutcome(call', ready')
       /\ (call'.op = "Open" /\ call'.thrown # "") => status' = status]_vars

C18_Witness ==
    /\ IsOpen /\ call.thrown # ""
    /\ status = STATUS_NOTREADY

(* C19: the loop over the pages ends: every page examined lies within the
   length, each lies at least 2 bytes after the one before, and at most
   half the bytes to parse, rounded up, are pages, also when pages declare
   a length of 0. *)
C19_LoopTerminates ==
    (IsModeSelect /\ PF(call))
      => /\ \A k \in 1..Len(call.pages) :
              /\ call.pages[k] >= PageStart(call)
              /\ call.pages[k] < call.length
         /\ \A k \in 1..(Len(call.pages) - 1) :
              call.pages[k + 1] >= call.pages[k] + 2
         /\ 2 * Len(call.pages) <= (call.length - PageStart(call)) + 1
         /\ 2 * Len(call.pages) <= call.length + 1

C19_Witness ==
    /\ IsModeSelect /\ PF(call)
    /\ call.length = 11
    /\ Len(call.pages) = 6
    /\ \A k \in 1..5 : Rd(call.buf, call.pages[k] + 1) = 0
    /\ call.ret = TRUE

\* the steps on the Fileio, the steps that check the size, the steps that
\* change the device
FioSteps    == {"fio.Open", "fio.OpenFailed", "fio.GetFileSize", "fio.Close"}
CheckSteps  == {"check512", "check2TB"}
ChangeSteps == {"disk.size", "disk.blocks", "SetProduct", "Disk::Open",
                "SetPath"}

\* how many of the steps are the step e
Count(steps, e) == Cardinality({i \in 1..Len(steps) : steps[i] = e})

(* C20: within every Open the file is opened read-only, asked its size and
   closed before the size is checked and before the device changes, and on
   every outcome every file opened has been closed when Open returns or
   throws. *)
C20_HandleScoped ==
    IsOpen
      => LET st == call.steps IN
         /\ st[1] \in {"fio.Open", "fio.OpenFailed"}
         /\ \A i \in 1..Len(st), j \in 1..Len(st) :
              (st[i] \in FioSteps /\ st[j] \in CheckSteps \cup ChangeSteps)
                => i < j
         /\ Count(st, "fio.Open") = Count(st, "fio.Close")
         /\ Count(st, "fio.Open") <= 1
         /\ call.canOpen
              => (st[1] = "fio.Open" /\ st[2] = "fio.GetFileSize"
                    /\ st[3] = "fio.Close")
         /\ (st[Len(st)] = "throw") <=> (call.thrown # "")

C20_Witness ==
    /\ IsOpen
    /\ call.thrown = "File size must not exceed 2 TB"
    /\ Count(call.steps, "fio.Close") = 1
====
